---- MODULE Spec2Model ----
(***************************************************************************)
(* Model of the track-editing state machine of gpxhandle: the TrackList    *)
(* of src/list_view.py (point list, single highlight, checkbox selection,  *)
(* undo stack, processing flag) driven by the event handlers of            *)
(* src/main.py.                                                            *)
(*                                                                         *)
(* Python lists are 0-based; sequences here are 1-based, so list index i   *)
(* is sequence position i+1.  All indices kept in the state (idx,          *)
(* selected_indices, recorded indices) are the 0-based Python values.      *)
(*                                                                         *)
(* The program is event driven and single threaded (no thread is created   *)
(* anywhere in src/): a handler runs to completion, and the only code that *)
(* runs while a mutation is executing is what its notification callbacks   *)
(* call.  A mutation is therefore modelled in two steps: the call (guard,  *)
(* body up to the first callback) and Return (the finally clause); every   *)
(* operation may be invoked between the two, as a callback would.          *)
(*                                                                         *)
(* The callbacks the TrackList is constructed with are those of            *)
(* src/main.py (on_list_select, on_track_data_change,                      *)
(* update_delete_selected_button_state); they run synchronously inside     *)
(* the call and only touch the map, the elevation graph and the buttons.   *)
(* The call step applies them in the order of the code and records each    *)
(* of their calls to a collaborator, with what that collaborator could     *)
(* read at that moment, in ui.trace.                                       *)
(*                                                                         *)
(* The ElevationGraph of src/graph_view.py is modelled on its own: graph   *)
(* holds what load_points stores, smoothing a call of _smooth_elevations.  *)
(* Python floats are exact rationals here.  StatsSpec drives the graph     *)
(* with the loads main.py makes, SmoothSpec applies the smoothing to its   *)
(* inputs, RestrictedSpec is Spec without the deletion of a single row.    *)
(***************************************************************************)
EXTENDS Integers, Sequences, FiniteSets, TLC

\* Longest track that load_points is given.
MaxLen == 3

\* Longest track, and largest window, the statistics are computed for.
MaxPoints == 5

VARIABLES
    points,             \* TrackList.points: the Track
    idx,                \* TrackList.idx: single highlight, -1 if none
    selected_indices,   \* TrackList.selected_indices: checked rows
    _undo_stack,        \* TrackList._undo_stack
    _is_processing,     \* TrackList._is_processing
    frames,             \* call stack: the mutations whose body has run and
                        \* whose finally clause has not
    last,               \* the most recent call and what became of it
    hist,               \* history variable: hist[k] is the Track as it was
                        \* just before the deletion that pushed _undo_stack[k]
    ui,                 \* the collaborators of main.py:
                        \*   current_highlight_idx  MapView.current_highlight_idx
                        \*   map_points             MapView.points, when it is
                        \*                          a list of its own
                        \*   map_aliased            MapView.points is the list
                        \*                          object TrackList.points
                        \*   polyline               the points of the line
                        \*                          the map shows
                        \*   distances              ElevationGraph.distances
                        \*   trace                  the calls the most recent
                        \*                          handler made to them, in order
                        \*   ..._btn                the disabled attribute of
                        \*                          each button
    graph,              \* an ElevationGraph with its statistics
    smoothing           \* a call of ElevationGraph._smooth_elevations: its
                        \* arguments and what it returned

vars == <<points, idx, selected_indices, _undo_stack, _is_processing,
          frames, last, hist, ui, graph, smoothing>>

----------------------------------------------------------------------------
(* Python list and set primitives *)

\* range(a, b)
range(a, b) == [k \in 1..(IF b > a THEN b - a ELSE 0) |-> a + k - 1]

\* s[i]
item(s, i) == s[i + 1]

\* del s[i]  /  s.pop(i)
list_del(s, i) == SubSeq(s, 1, i) \o SubSeq(s, i + 2, Len(s))

\* s.insert(i, x), for 0 <= i <= len(s)
list_insert(s, i, x) == SubSeq(s, 1, i) \o <<x>> \o SubSeq(s, i + 1, Len(s))

min(a, b) == IF a < b THEN a ELSE b

max(a, b) == IF a > b THEN a ELSE b

SetMax(S) == CHOOSE m \in S : \A x \in S : x <= m

RECURSIVE sorted_reverse(_)
\* sorted(list(S), reverse=True)
sorted_reverse(S) ==
    IF S = {} THEN <<>>
    ELSE LET m == SetMax(S) IN <<m>> \o sorted_reverse(S \ {m})

\* The tracks load_points is given: n distinct points 1..n, 0 <= n <= MaxLen.
Tracks == {[k \in 1..n |-> k] : n \in 0..MaxLen}

\* Mutant of del_slice: the slice takes its end index too.
del_slice_inclusive(s, a, b) ==
    SubSeq(s, 1, a) \o SubSeq(s, min(b + 1, Len(s)) + 1, Len(s))

\* del s[a:b], for 0 <= a <= b
del_slice(s, a, b) == SubSeq(s, 1, a) \o SubSeq(s, min(b, Len(s)) + 1, Len(s))

\* A call and what became of it.  arg is the index the call was given
\* (_handle_click, _handle_checkbox_change, _delete_point), the step of
\* move_cursor, the length of the track of load_points, and -1 for the
\* calls without argument.  outcome is "ok" (the body ran and changed the
\* Track; undo_delete returns True), "empty" (the body ran and removed
\* nothing), "guard" (returned because _is_processing was set; undo_delete
\* returns False), "precondition" (returned because the call's own
\* condition failed; undo_delete returns False), "raised" (an exception
\* left the call).
Outcome(op, arg, what) == [op |-> op, arg |-> arg, outcome |-> what]

----------------------------------------------------------------------------
(* TrackList helpers *)

\* Mutant of _refresh_list: the highlight is restored without the range test.
_refresh_list_unchecked(pts, cur) ==
    IF pts = <<>> THEN -1 ELSE cur

\* Mutant of _refresh_list: a highlight past the end moves to the last row.
_refresh_list_clamped(pts, cur) ==
    IF pts = <<>> \/ cur < 0 THEN -1 ELSE min(cur, Len(pts) - 1)

\* _refresh_list: rebuilds the rows from the points and restores the
\* highlight; the result is the new idx (cur is idx on entry).
_refresh_list(pts, cur) ==
    IF pts = <<>> THEN -1
    ELSE IF 0 <= cur /\ cur < Len(pts) THEN cur ELSE -1

\* An entry of _undo_stack.  Python pushes a 2-tuple; shape records the
\* types of its components: "lists" for (list of int, list of point),
\* "scalars" for (int, point), whose one index and one point are then held
\* in indices and points.
UndoEntry(shape, indices, pts) ==
    [shape |-> shape, indices |-> indices, points |-> pts]

RECURSIVE pop_selected(_, _, _)
\* The loop of delete_selected: pops every valid index of todo (descending)
\* and collects the (index, point) pairs in removal order.
pop_selected(pts, todo, items) ==
    IF todo = <<>> THEN [points |-> pts, items |-> items]
    ELSE LET index == Head(todo) IN
         IF 0 <= index /\ index < Len(pts)
         THEN pop_selected(list_del(pts, index), Tail(todo),
                           Append(items, <<index, item(pts, index)>>))
         ELSE pop_selected(pts, Tail(todo), items)

\* Mutant of sort_by_index: the pairs are left in removal order.
sort_by_index_omitted(items) == items

RECURSIVE sort_by_index(_)
\* deleted_items_for_undo.sort(key=lambda item: item[0]): stable, ascending.
sort_by_index(items) ==
    IF items = <<>> THEN <<>>
    ELSE LET rest == sort_by_index(Tail(items))
             h == Head(items)
             before == SelectSeq(rest, LAMBDA it : it[1] < h[1])
             after == SelectSeq(rest, LAMBDA it : it[1] >= h[1])
         IN before \o <<h>> \o after

\* Mutant of restore: the points of the record are appended to the list.
restore_at_end(pts, indices, data_list) == pts \o data_list

RECURSIVE restore(_, _, _)
\* The loop of undo_delete over zip(indices, data_list).
restore(pts, indices, data_list) ==
    IF indices = <<>> \/ data_list = <<>> THEN pts
    ELSE LET actual_insert_idx == min(Head(indices), Len(pts)) IN
         restore(list_insert(pts, actual_insert_idx, Head(data_list)),
                 Tail(indices), Tail(data_list))

----------------------------------------------------------------------------
(* The collaborators: MapView, ElevationGraph and the buttons of main.py.  *)
(* A point is modelled by its position on a line, so that the 2D distance  *)
(* between two points is the difference of their positions.  The list the  *)
(* three views hold is the one list object open_gpx_result hands to all of *)
(* them, which the TrackList changes in place: pts below is that list as   *)
(* it is when the collaborator is called.                                  *)

abs(x) == IF x < 0 THEN -x ELSE x

\* Mutant of distance_2d: the signed difference of the positions.
distance_2d_signed(p1, p2) == p2 - p1

\* p1.distance_2d(p2)
distance_2d(p1, p2) == abs(p2 - p1)

RECURSIVE distances_loop(_, _, _, _)
\* The loop of ElevationGraph.load_points that appends the cumulative
\* distance of every point after the first.
distances_loop(pts, i, current_dist_m, acc) ==
    IF i >= Len(pts) - 1 THEN acc
    ELSE LET dist_m == distance_2d(item(pts, i), item(pts, i + 1))
         IN distances_loop(pts, i + 1, current_dist_m + dist_m,
                           Append(acc, current_dist_m + dist_m))

\* self.distances as ElevationGraph.load_points(pts) leaves it
compute_distances(pts) == distances_loop(pts, 0, 0, <<0>>)

\* A call to a collaborator: who is called, which method, with which index
\* (-1 when it takes none; 0 or 1 for a flag), and what is readable at that
\* moment: TrackList.points and ElevationGraph.distances.
Event(to, what, arg, u, pts) ==
    [to |-> to, what |-> what, arg |-> arg, points |-> pts,
     distances |-> u.distances]

Emit(u, e) == [u EXCEPT !.trace = Append(@, e)]

\* The collaborators as a handler finds them: nothing called yet.
Fresh == [ui EXCEPT !.trace = <<>>]

\* self._refresh_list(); self.update(): the rows are rebuilt from the points
refreshed(u, pts) == Emit(u, Event("track_list", "_refresh_list", -1, u, pts))

\* MapView.highlight(idx)
map_highlight(u, pts, i) ==
    [Emit(u, Event("map_view", "highlight", i, u, pts))
        EXCEPT !.current_highlight_idx = i]

\* MapView.points, pts being TrackList.points
MapView_points(u, pts) == IF u.map_aliased THEN pts ELSE u.map_points

\* MapView._update_map_display(): the line is rebuilt from self.points
_update_map_display(u, pts) == [u EXCEPT !.polyline = MapView_points(u, pts)]

\* Mutant of map_refresh: the highlight is renewed, the line is not.
map_refresh_marker_only(u, pts) ==
    LET drawn == Emit(u, Event("map_view", "refresh", -1, u, pts))
    IN IF MapView_points(drawn, pts) # <<>> /\ drawn.current_highlight_idx >= 0
       THEN map_highlight(drawn, pts, drawn.current_highlight_idx)
       ELSE drawn

\* MapView.refresh()
map_refresh(u, pts) ==
    LET drawn == _update_map_display(
                     Emit(u, Event("map_view", "refresh", -1, u, pts)), pts)
    IN IF MapView_points(drawn, pts) # <<>> /\ drawn.current_highlight_idx >= 0
       THEN map_highlight(drawn, pts, drawn.current_highlight_idx)
       ELSE drawn

\* ElevationGraph.highlight(index)
graph_highlight(u, pts, index) ==
    Emit(u, Event("graph_view", "highlight", index, u, pts))

\* ElevationGraph.hide_point_info()
hide_point_info(u, pts) ==
    Emit(u, Event("graph_view", "hide_point_info", -1, u, pts))

\* ElevationGraph.load_points(points): the statistics are recomputed
graph_load_points(u, pts) ==
    [Emit(u, Event("graph_view", "load_points", Len(pts), u, pts))
        EXCEPT !.distances = compute_distances(pts)]

\* The buttons of main.py are the fields delete_before_btn, delete_after_btn,
\* delete_selected_btn, undo_btn and export_btn, each holding the button's
\* disabled attribute.  The callbacks run inside the TrackList method, so
\* what they read of the TrackList is its state as the method leaves it.
update_range_delete_buttons_state(u, pts, selected_idx) ==
    LET points_count == Len(pts)
        can_delete_before == selected_idx > 0
        can_delete_after == 0 <= selected_idx /\ selected_idx < points_count - 1
    IN [Emit(u, Event("buttons", "update_range_delete_buttons_state",
                      selected_idx, u, pts))
           EXCEPT !.delete_before_btn = ~can_delete_before,
                  !.delete_after_btn = ~can_delete_after]

update_delete_selected_button_state(u, pts, has_selection) ==
    [Emit(u, Event("buttons", "update_delete_selected_button_state",
                   IF has_selection THEN 1 ELSE 0, u, pts))
        EXCEPT !.delete_selected_btn = ~has_selection]

\* TrackList.can_undo, read by a callback
can_undo == Len(_undo_stack') > 0

update_undo_button_state(u, pts) ==
    [Emit(u, Event("buttons", "update_undo_button_state", -1, u, pts))
        EXCEPT !.undo_btn = IF @ = can_undo THEN ~can_undo ELSE @]

\* current_points is the list the TrackList holds
update_export_button_state(u, pts) ==
    LET can_export == pts # <<>>
    IN [u EXCEPT !.export_btn = IF @ = can_export THEN ~can_export ELSE @]

update_all_button_states(u, pts) ==
    LET called == Emit(u, Event("buttons", "update_all_button_states", -1,
                                u, pts))
        export == update_export_button_state(called, pts)
        range_delete == [export EXCEPT
            !.delete_before_btn = ~(idx' > 0),
            !.delete_after_btn = ~(0 <= idx' /\ idx' < Len(pts) - 1)]
        delete_selected == [range_delete EXCEPT
            !.delete_selected_btn = ~(selected_indices' # {})]
    IN [delete_selected EXCEPT
            !.undo_btn = IF @ = can_undo THEN ~can_undo ELSE @]

\* on_list_select(idx), the on_select callback
on_list_select(u, pts, i) ==
    LET shown == IF i >= 0
                 THEN graph_highlight(map_highlight(u, pts, i), pts, i)
                 ELSE hide_point_info(map_highlight(u, pts, -1), pts)
    IN update_range_delete_buttons_state(shown, pts, i)

\* Mutant of on_track_data_change: the graph is not reloaded.
on_track_data_change_without_graph(u, pts, current_idx) ==
    update_all_button_states(
        on_list_select(map_refresh(u, pts), pts, current_idx), pts)

\* on_track_data_change(), the on_data_change callback
on_track_data_change(u, pts, current_idx) ==
    update_all_button_states(
        on_list_select(graph_load_points(map_refresh(u, pts), pts),
                       pts, current_idx), pts)

\* The notifications at the end of a range deletion, a batch deletion or an
\* undo: on_select_cb, on_multi_selection_change_cb, on_data_change_cb.
notify_all(u, pts, i, has_selection) ==
    on_track_data_change(
        update_delete_selected_button_state(
            on_list_select(refreshed(u, pts), pts, i), pts, has_selection),
        pts, i)

\* The notifications at the end of _delete_point: on_select_cb,
\* on_data_change_cb.
notify_point(u, pts, i) ==
    on_track_data_change(on_list_select(refreshed(u, pts), pts, i), pts, i)

\* MapView.load_points(new); old is the TrackList's list at that moment,
\* another list object than new.
map_load_points(u, old, new) ==
    LET drawn == [Emit(u, Event("map_view", "load_points", Len(new), u, old))
                     EXCEPT !.current_highlight_idx = -1,
                            !.map_points = new,
                            !.map_aliased = FALSE,
                            !.polyline = new]
    IN IF new # <<>> THEN map_highlight(drawn, old, 0) ELSE drawn

\* open_gpx_result with the points pts of load_gpx (none when it raised);
\* old is the TrackList's list before.  The map and the TrackList are given
\* the one list load_gpx returned, and each an empty list of its own when
\* load_gpx raised.
open_gpx_result(u, old, pts, raised) ==
    LET on_map == map_load_points(u, old, pts)
        loaded == [on_map EXCEPT !.map_aliased = ~raised]
        on_list == update_delete_selected_button_state(
                       on_list_select(refreshed(loaded, pts), pts, -1),
                       pts, FALSE)
        on_graph == graph_load_points(on_list, pts)
    IN update_all_button_states(on_list_select(on_graph, pts, -1), pts)

\* handle_undo before it calls undo_delete: the undo button is disabled.
handle_undo_begin(u, pts) ==
    [Emit(u, Event("buttons", "undo_btn.disabled = True", -1, u, pts))
        EXCEPT !.undo_btn = TRUE]

\* Mutant of rejected_ui: a call turned away republishes the selection.
rejected_ui_selects(op) ==
    on_list_select(Fresh, points, idx)

\* What the handler of a call that is turned away does to the
\* collaborators: handle_undo re-evaluates the undo button, the other
\* handlers do nothing.
rejected_ui(op) ==
    IF op = "undo_delete"
    THEN update_undo_button_state(handle_undo_begin(Fresh, points), points)
    ELSE Fresh

----------------------------------------------------------------------------
(* The statistics of ElevationGraph (src/graph_view.py).                   *)
(*                                                                         *)
(* A Python float is modelled by the exact fraction it stands for, kept in *)
(* lowest terms: rounding is left out.  A value that may be None is a      *)
(* sequence of length at most one.  A point of the track is a record       *)
(* [lat, ele, time]: lat is its position in metres along a meridian (lon   *)
(* is the same number for every point, so the coordinates are valid when   *)
(* lat is a number and distance_2d is the difference of the positions),    *)
(* ele is metres, time is seconds from an epoch.                           *)

RECURSIVE gcd(_, _)
gcd(a, b) == IF b = 0 THEN a ELSE gcd(b, a % b)

\* The float n/d, for d > 0
Float(n, d) == LET g == gcd(abs(n), d) IN [n |-> n \div g, d |-> d \div g]

add(x, y) == Float(x.n * y.d + y.n * x.d, x.d * y.d)

sub(x, y) == Float(x.n * y.d - y.n * x.d, x.d * y.d)

\* x / k for an integer k > 0
div(x, k) == Float(x.n, x.d * k)

\* x > y
gt(x, y) == x.n * y.d > y.n * x.d

Zero == Float(0, 1)

None == <<>>

Some(v) == <<v>>

\* isinstance(x, (int, float)), isinstance(x, datetime)
isinstance(x) == x # None

SMOOTHING_WINDOW_SIZE == 5

ASCENT_THRESHOLD_METERS == Float(3, 10)

\* sum(a[lo:hi + 1]) where the entries outside a count as zero
RECURSIVE padded_sum(_, _, _)
padded_sum(a, lo, hi) ==
    IF lo > hi THEN Zero
    ELSE add(IF 0 <= lo /\ lo < Len(a) THEN item(a, lo) ELSE Zero,
             padded_sum(a, lo + 1, hi))

\* Mutant of convolve_same: mode='valid', the entries of the full
\* convolution that no padding enters.
convolve_valid(a, w) ==
    [k \in 1..(Len(a) - w + 1) |-> div(padded_sum(a, k - 1, k + w - 2), w)]

\* np.convolve(a, np.ones(w) / w, mode='same') for len(a) >= w: entry i of
\* the full convolution is the sum of a[i - w + 1 .. i] over w, and 'same'
\* keeps the len(a) entries from (w - 1) // 2 on.
convolve_same(a, w) ==
    [k \in 1..Len(a) |->
        LET i == (k - 1) + (w - 1) \div 2
        IN div(padded_sum(a, i - w + 1, i), w)]

\* Mutant of restore_ends: the ends keep the values of the convolution.
restore_ends_omitted(smoothed_array, elevation_array, half_window) ==
    smoothed_array

\* smoothed_array[:half_window] = elevation_array[:half_window]
\* smoothed_array[-half_window:] = elevation_array[-half_window:]
\* The two arrays have the same length.
restore_ends(smoothed_array, elevation_array, half_window) ==
    [k \in DOMAIN smoothed_array |->
        IF k <= half_window \/ k > Len(elevation_array) - half_window
        THEN elevation_array[k] ELSE smoothed_array[k]]

\* ElevationGraph._smooth_elevations(elevations, window_size)
_smooth_elevations(elevations, window_size) ==
    IF window_size < 3 \/ elevations = <<>> \/ Len(elevations) < window_size
    THEN elevations
    ELSE restore_ends(convolve_same(elevations, window_size), elevations,
                      window_size \div 2)

\* What the loop over the points appends to gpx_points for the point p: a
\* GPXTrackPoint if its coordinates are numbers, None if not.
gpx_point(p) ==
    IF isinstance(p.lat)
    THEN Some([latitude |-> p.lat[1],
               elevation |-> IF isinstance(p.ele) THEN p.ele[1] ELSE Zero,
               time |-> p.time])
    ELSE None

gpx_points(pts) == [k \in 1..Len(pts) |-> gpx_point(pts[k])]

\* (p.elevation or 0.0) if p else 0.0, for the entry p of gpx_points
raw_elevation(p) == IF p # None THEN p[1].elevation ELSE Zero

\* The same loop, for start_time and end_time: the times of the points made
\* into a GPXTrackPoint, first and last.
RECURSIVE times_loop(_, _, _)
times_loop(pts, i, acc) ==
    IF i >= Len(pts) THEN acc
    ELSE LET p == item(pts, i)
         IN IF isinstance(p.lat) /\ isinstance(p.time)
            THEN times_loop(pts, i + 1,
                     [start_time |-> IF acc.start_time = None THEN p.time
                                     ELSE acc.start_time,
                      end_time |-> p.time])
            ELSE times_loop(pts, i + 1, acc)

\* Mutant of is_ascent: a rise equal to the threshold counts.
is_ascent_inclusive(ele_diff_smoothed) ==
    ~gt(ASCENT_THRESHOLD_METERS, ele_diff_smoothed)

\* ele_diff_smoothed > self.ASCENT_THRESHOLD_METERS
is_ascent(ele_diff_smoothed) ==
    gt(ele_diff_smoothed, ASCENT_THRESHOLD_METERS)

\* Mutant of initial_distances: the list of the previous load is kept.
initial_distances_kept(self) == self.distances

\* self.distances = [0.0], before the loop over the pairs
initial_distances(self) == <<Zero>>

\* The loop over the pairs of consecutive points, from pair i on, with
\* self.distances, current_dist_m and total_ascent as they are before it.
RECURSIVE pairs_loop(_, _, _, _, _, _)
pairs_loop(gpx_pts, smoothed_elevations, i, distances, current_dist_m, total_ascent) ==
    IF i >= Len(gpx_pts) - 1
    THEN [distances |-> distances, current_dist_m |-> current_dist_m,
          total_ascent |-> total_ascent]
    ELSE LET p1 == item(gpx_pts, i)
             p2 == item(gpx_pts, i + 1)
             ele_diff_smoothed == sub(item(smoothed_elevations, i + 1),
                                      item(smoothed_elevations, i))
             both == p1 # None /\ p2 # None
             dist_m == IF both
                       THEN distance_2d(p1[1].latitude, p2[1].latitude)
                       ELSE 0
         IN pairs_loop(gpx_pts, smoothed_elevations, i + 1,
                Append(distances, Float(current_dist_m + dist_m, 1000)),
                current_dist_m + dist_m,
                IF both /\ is_ascent(ele_diff_smoothed)
                THEN add(total_ascent, ele_diff_smoothed)
                ELSE total_ascent)

\* The ElevationGraph as __init__ leaves it.  total_seconds is the local of
\* load_points that total_time_str is formatted from; "-" is <<>> and
\* "HH:MM" is <<hours, minutes>>.
ElevationGraph ==
    [points |-> <<>>, distances |-> <<>>, total_time_str |-> <<>>,
     total_distance_km |-> Zero, total_ascent_m |-> Zero,
     total_seconds |-> 0]

\* ElevationGraph.load_points(points) on the graph self, for points whose
\* fields have the types above, for which nothing raises.
ElevationGraph_load_points(self, pts) ==
    LET gpx_pts == gpx_points(pts)
        times == times_loop(pts, 0, [start_time |-> None, end_time |-> None])
        raw_elevations ==
            [k \in 1..Len(pts) |-> raw_elevation(gpx_point(pts[k]))]
        smoothed == _smooth_elevations(raw_elevations, SMOOTHING_WINDOW_SIZE)
        smoothed_elevations == IF Len(smoothed) # Len(raw_elevations)
                               THEN raw_elevations ELSE smoothed
        looped == pairs_loop(gpx_pts, smoothed_elevations, 0,
                             initial_distances(self), 0, Zero)
        total_seconds ==
            IF /\ times.start_time # None /\ times.end_time # None
               /\ times.end_time[1] > times.start_time[1]
            THEN times.end_time[1] - times.start_time[1] ELSE 0
        hours == total_seconds \div 3600
        minutes == (total_seconds % 3600) \div 60
    IN [self EXCEPT
           !.points = pts,
           !.distances = looped.distances,
           !.total_time_str = IF total_seconds > 0 THEN <<hours, minutes>>
                              ELSE <<>>,
           !.total_distance_km = Float(looped.current_dist_m, 1000),
           !.total_ascent_m = looped.total_ascent,
           !.total_seconds = total_seconds]

\* The tracks the statistics are computed for: tracks that vary in
\* elevation, in position and in time, each with points whose coordinates
\* are not numbers.
Elevations == {Zero, Float(3, 10), Float(1, 1)}

ElevationPoints ==
    [lat : {Some(0)}, ele : {Some(e) : e \in Elevations}, time : {None}]
        \union [lat : {None}, ele : {Some(Float(1, 1))}, time : {None}]

DistancePoints ==
    [lat : {None, Some(0), Some(1), Some(3)}, ele : {None}, time : {None}]

TimePoints ==
    [lat : {Some(0)}, ele : {Some(Zero)}, time : {None, Some(0), Some(1)}]
        \union [lat : {None}, ele : {Some(Zero)}, time : {Some(0), Some(1)}]

ListsOf(S) == UNION {[1..n -> S] : n \in 0..MaxPoints}

GpxTracks ==
    ListsOf(ElevationPoints) \union ListsOf(DistancePoints)
        \union ListsOf(TimePoints)

----------------------------------------------------------------------------
\* The TrackList, the collaborators and the graph as main() constructs them
Constructed ==
    /\ points = <<>>
    /\ idx = -1
    /\ selected_indices = {}
    /\ _undo_stack = <<>>
    /\ _is_processing = FALSE
    /\ frames = <<>>
    /\ last = Outcome("init", -1, "ok")
    /\ hist = <<>>
    /\ ui = [current_highlight_idx |-> -1, distances |-> <<>>, trace |-> <<>>,
             map_points |-> <<>>, map_aliased |-> FALSE, polyline |-> <<>>,
             delete_before_btn |-> TRUE, delete_after_btn |-> TRUE,
             delete_selected_btn |-> TRUE, undo_btn |-> TRUE,
             export_btn |-> TRUE]
    /\ graph = ElevationGraph

Init ==
    /\ Constructed
    /\ smoothing = [elevations |-> <<>>, window_size |-> SMOOTHING_WINDOW_SIZE,
                    returned |-> None]

\* Mutant of load_points: the undo stack and the checked rows survive.
load_points_keeps_history ==
    \E pts \in Tracks, raised \in BOOLEAN :
        /\ raised => pts = <<>>
        /\ points' = pts
        /\ idx' = _refresh_list(pts, -1)
        /\ last' = Outcome("load_points", Len(pts), "ok")
        /\ UNCHANGED <<_undo_stack, selected_indices, hist, _is_processing,
                       frames>>
        /\ ui' = open_gpx_result(Fresh, points, pts, raised)

\* load_points, as open_gpx_result calls it with the points of load_gpx,
\* or with an empty list when load_gpx raised.
load_points ==
    \E pts \in Tracks, raised \in BOOLEAN :
        /\ raised => pts = <<>>
        /\ points' = pts
        /\ _undo_stack' = <<>>
        /\ selected_indices' = {}
        /\ idx' = _refresh_list(pts, -1)
        /\ hist' = <<>>
        /\ last' = Outcome("load_points", Len(pts), "ok")
        /\ ui' = open_gpx_result(Fresh, points, pts, raised)
        /\ UNCHANGED <<_is_processing, frames>>

\* _handle_click on the row clicked_idx.
_handle_click ==
    \E clicked_idx \in 0..(Len(points) - 1) :
        /\ idx' = clicked_idx
        /\ last' = Outcome("_handle_click", clicked_idx, "ok")
        /\ ui' = on_list_select(Fresh, points, clicked_idx)
        /\ UNCHANGED <<points, selected_indices, _undo_stack, _is_processing,
                       frames, hist>>

\* _handle_checkbox_change on the checkbox of row i, set to is_selected.
_handle_checkbox_change ==
    \E i \in 0..(Len(points) - 1), is_selected \in BOOLEAN :
        /\ selected_indices' = IF is_selected THEN selected_indices \union {i}
                               ELSE selected_indices \ {i}
        /\ last' = Outcome("_handle_checkbox_change", i, "ok")
        /\ ui' = IF (selected_indices = {}) # (selected_indices' = {})
                 THEN update_delete_selected_button_state(
                          Fresh, points, selected_indices' # {})
                 ELSE Fresh
        /\ UNCHANGED <<points, idx, _undo_stack, _is_processing, frames, hist>>

\* _update_selection(new_idx), as move_cursor calls it; the rows are those of
\* the points (n of them).
_update_selection(n, cur, new_idx) ==
    IF ~(0 <= new_idx /\ new_idx < n) \/ new_idx = cur THEN cur ELSE new_idx

\* move_cursor(step)
move_cursor ==
    \E step \in {-1, 1} :
        /\ idx' = IF points = <<>> THEN idx
                  ELSE LET start_idx == IF idx = -1
                                        THEN (IF step > 0 THEN 0
                                              ELSE Len(points) - 1)
                                        ELSE idx
                           new_idx == max(0, min(Len(points) - 1,
                                                 start_idx + step))
                       IN _update_selection(Len(points), idx, new_idx)
        /\ last' = Outcome("move_cursor", step, "ok")
        /\ ui' = IF idx' # idx THEN on_list_select(Fresh, points, idx')
                 ELSE Fresh
        /\ UNCHANGED <<points, selected_indices, _undo_stack, _is_processing,
                       frames, hist>>

\* Mutant of Rejected: the guard test sits inside the try block, so the
\* finally clause of the rejected call clears the flag.
Rejected_in_try(op, arg, why) ==
    /\ last' = Outcome(op, arg, why)
    /\ _is_processing' = FALSE
    /\ UNCHANGED <<points, idx, selected_indices, _undo_stack, frames, hist>>
    /\ ui' = rejected_ui(op)

\* A call that returns at its guard: nothing but the outcome is recorded.
Rejected(op, arg, why) ==
    /\ last' = Outcome(op, arg, why)
    /\ UNCHANGED <<points, idx, selected_indices, _undo_stack,
                   _is_processing, frames, hist>>
    /\ ui' = rejected_ui(op)

\* Mutant of Entered: the flag is never set.
Entered_flag_unset(op, arg, what) ==
    /\ UNCHANGED _is_processing
    /\ frames' = Append(frames, op)
    /\ last' = Outcome(op, arg, what)

\* The body of a mutation has run with the flag set; its callbacks follow.
Entered(op, arg, what) ==
    /\ _is_processing' = TRUE
    /\ frames' = Append(frames, op)
    /\ last' = Outcome(op, arg, what)

----------------------------------------------------------------------------
(* The structural mutations *)

\* delete_before_selected
delete_before_selected ==
    IF _is_processing THEN Rejected("delete_before_selected", -1, "guard")
    ELSE IF idx <= 0 THEN Rejected("delete_before_selected", -1, "precondition")
    ELSE LET indices_to_delete == range(0, idx)
             deleted_data == [k \in 1..Len(indices_to_delete) |->
                                 item(points, indices_to_delete[k])]
             remaining == del_slice(points, 0, idx)
         IN IF deleted_data # <<>>
            THEN /\ _undo_stack' = Append(_undo_stack,
                       UndoEntry("lists", indices_to_delete, deleted_data))
                 /\ hist' = Append(hist, points)
                 /\ points' = remaining
                 /\ idx' = _refresh_list(remaining, 0)
                 /\ UNCHANGED selected_indices
                 /\ ui' = notify_all(Fresh, remaining, idx',
                                     selected_indices # {})
                 /\ Entered("delete_before_selected", -1, "ok")
            ELSE \* nothing to delete: no callback runs before the finally
                 /\ _is_processing' = FALSE
                 /\ last' = Outcome("delete_before_selected", -1, "empty")
                 /\ ui' = Fresh
                 /\ UNCHANGED <<points, idx, selected_indices, _undo_stack,
                                frames, hist>>

\* Mutant of start_delete_idx: the deletion starts at the highlighted row.
start_delete_idx_at_cursor(cur) == cur

\* start_delete_idx = self.idx + 1
start_delete_idx(cur) == cur + 1

\* delete_after_selected
delete_after_selected ==
    IF _is_processing THEN Rejected("delete_after_selected", -1, "guard")
    ELSE IF idx < 0 \/ idx >= Len(points) - 1
    THEN Rejected("delete_after_selected", -1, "precondition")
    ELSE LET indices_to_delete == range(start_delete_idx(idx), Len(points))
             deleted_data == [k \in 1..Len(indices_to_delete) |->
                                 item(points, indices_to_delete[k])]
             remaining == del_slice(points, start_delete_idx(idx), Len(points))
         IN IF deleted_data # <<>>
            THEN /\ _undo_stack' = Append(_undo_stack,
                       UndoEntry("lists", indices_to_delete, deleted_data))
                 /\ hist' = Append(hist, points)
                 /\ points' = remaining
                 /\ idx' = _refresh_list(remaining, idx)
                 /\ UNCHANGED selected_indices
                 /\ ui' = notify_all(Fresh, remaining, idx',
                                     selected_indices # {})
                 /\ Entered("delete_after_selected", -1, "ok")
            ELSE \* nothing to delete: no callback runs before the finally
                 /\ _is_processing' = FALSE
                 /\ last' = Outcome("delete_after_selected", -1, "empty")
                 /\ ui' = Fresh
                 /\ UNCHANGED <<points, idx, selected_indices, _undo_stack,
                                frames, hist>>

\* _delete_point, for the event of a control whose data is idx_to_delete
_delete_point ==
    \E idx_to_delete \in -1..MaxLen :
        IF _is_processing THEN Rejected("_delete_point", idx_to_delete, "guard")
        ELSE IF ~(0 <= idx_to_delete /\ idx_to_delete < Len(points))
        THEN /\ _is_processing' = FALSE
             /\ last' = Outcome("_delete_point", idx_to_delete, "precondition")
             /\ UNCHANGED <<points, idx, selected_indices, _undo_stack,
                            frames, hist>>
             /\ ui' = rejected_ui("_delete_point")
        ELSE LET deleted_data == item(points, idx_to_delete)
                 remaining == list_del(points, idx_to_delete)
             IN /\ _undo_stack' = Append(_undo_stack,
                      UndoEntry("scalars", <<idx_to_delete>>, <<deleted_data>>))
                /\ hist' = Append(hist, points)
                /\ points' = remaining
                /\ idx' = _refresh_list(remaining, idx)
                /\ UNCHANGED selected_indices
                /\ ui' = notify_point(Fresh, remaining, idx')
                /\ Entered("_delete_point", idx_to_delete, "ok")

\* delete_selected
delete_selected ==
    IF _is_processing THEN Rejected("delete_selected", -1, "guard")
    ELSE IF selected_indices = {} THEN Rejected("delete_selected", -1, "precondition")
    ELSE LET indices_to_delete == sorted_reverse(selected_indices)
             popped == pop_selected(points, indices_to_delete, <<>>)
             deleted_items_for_undo == sort_by_index(popped.items)
             original_indices == [k \in 1..Len(deleted_items_for_undo) |->
                                     deleted_items_for_undo[k][1]]
             original_data == [k \in 1..Len(deleted_items_for_undo) |->
                                  deleted_items_for_undo[k][2]]
         IN /\ IF popped.items # <<>>
               THEN /\ _undo_stack' = Append(_undo_stack,
                          UndoEntry("lists", original_indices, original_data))
                    /\ hist' = Append(hist, points)
               ELSE UNCHANGED <<_undo_stack, hist>>
            /\ points' = popped.points
            /\ selected_indices' = {}
            /\ idx' = _refresh_list(popped.points, idx)
            /\ ui' = notify_all(Fresh, popped.points, idx', FALSE)
            /\ Entered("delete_selected", -1,
                       IF popped.items # <<>> THEN "ok" ELSE "empty")

\* undo_delete
undo_delete ==
    IF _is_processing THEN Rejected("undo_delete", -1, "guard")
    ELSE IF _undo_stack = <<>>
    THEN \* returns False from inside the try; the finally clause runs
         /\ _is_processing' = FALSE
         /\ last' = Outcome("undo_delete", -1, "precondition")
         /\ UNCHANGED <<points, idx, selected_indices, _undo_stack, frames,
                        hist>>
         /\ ui' = rejected_ui("undo_delete")
    ELSE LET top == _undo_stack[Len(_undo_stack)]
             popped_stack == SubSeq(_undo_stack, 1, Len(_undo_stack) - 1)
             popped_hist == SubSeq(hist, 1, Len(hist) - 1)
         IN IF top.shape = "scalars"
            THEN \* zip(indices, data_list) with an int raises TypeError
                 \* after the pop; the finally clause runs
                 /\ _undo_stack' = popped_stack
                 /\ hist' = popped_hist
                 /\ _is_processing' = FALSE
                 /\ last' = Outcome("undo_delete", -1, "raised")
                 /\ ui' = handle_undo_begin(Fresh, points)
                 /\ UNCHANGED <<points, idx, selected_indices, frames>>
            ELSE LET restored == restore(points, top.indices, top.points)
                     first == IF top.indices # <<>> THEN top.indices[1]
                              ELSE -1
                 IN /\ _undo_stack' = popped_stack
                    /\ hist' = popped_hist
                    /\ points' = restored
                    /\ idx' = _refresh_list(restored, first)
                    /\ UNCHANGED selected_indices
                    /\ ui' = notify_all(handle_undo_begin(Fresh, points),
                                        restored, idx', FALSE)
                    /\ Entered("undo_delete", -1, "ok")

\* Mutant of Return: the mutation returns without a finally clause.
Return_without_finally ==
    /\ frames # <<>>
    /\ frames' = SubSeq(frames, 1, Len(frames) - 1)
    /\ UNCHANGED <<points, idx, selected_indices, _undo_stack, last, hist,
                   ui, _is_processing>>

\* The finally clause of the mutation that is executing, and its return.
Return ==
    /\ frames # <<>>
    /\ frames' = SubSeq(frames, 1, Len(frames) - 1)
    /\ _is_processing' = FALSE
    /\ UNCHANGED <<points, idx, selected_indices, _undo_stack, last, hist,
                   ui>>

\* The handlers of main.py on the TrackList; the graph on its own and the
\* call of _smooth_elevations are not involved.
Next ==
    \/ load_points /\ UNCHANGED <<graph, smoothing>>
    \/ _handle_click /\ UNCHANGED <<graph, smoothing>>
    \/ _handle_checkbox_change /\ UNCHANGED <<graph, smoothing>>
    \/ move_cursor /\ UNCHANGED <<graph, smoothing>>
    \/ delete_before_selected /\ UNCHANGED <<graph, smoothing>>
    \/ delete_after_selected /\ UNCHANGED <<graph, smoothing>>
    \/ _delete_point /\ UNCHANGED <<graph, smoothing>>
    \/ delete_selected /\ UNCHANGED <<graph, smoothing>>
    \/ undo_delete /\ UNCHANGED <<graph, smoothing>>
    \/ Return /\ UNCHANGED <<graph, smoothing>>

Spec == Init /\ [][Next]_vars

\* The handlers without _delete_point, the deletion of one row by its own
\* button: load, selection, the three deletions by range and by checkbox,
\* and undo.
RestrictedNext ==
    \/ load_points /\ UNCHANGED <<graph, smoothing>>
    \/ _handle_click /\ UNCHANGED <<graph, smoothing>>
    \/ _handle_checkbox_change /\ UNCHANGED <<graph, smoothing>>
    \/ move_cursor /\ UNCHANGED <<graph, smoothing>>
    \/ delete_before_selected /\ UNCHANGED <<graph, smoothing>>
    \/ delete_after_selected /\ UNCHANGED <<graph, smoothing>>
    \/ delete_selected /\ UNCHANGED <<graph, smoothing>>
    \/ undo_delete /\ UNCHANGED <<graph, smoothing>>
    \/ Return /\ UNCHANGED <<graph, smoothing>>

RestrictedSpec == Init /\ [][RestrictedNext]_vars

----------------------------------------------------------------------------
(* The elevation graph on its own: the loads main.py makes it do.          *)

\* Everything but graph, smoothing and last
others == <<points, idx, selected_indices, _undo_stack, _is_processing,
            frames, hist, ui>>

\* open_gpx_result: graph_view.load_points(points) with the points of a
\* file, on a graph that shows no point.
graph_open ==
    /\ graph.points = <<>>
    /\ \E pts \in GpxTracks :
        /\ graph' = ElevationGraph_load_points(graph, pts)
        /\ last' = Outcome("open_gpx_result", Len(pts), "ok")
    /\ UNCHANGED <<others, smoothing>>

\* on_track_data_change after the TrackList deleted the point at index i of
\* the list the graph holds: graph_view.load_points(track_list.points).
graph_delete ==
    /\ \E i \in 0..(Len(graph.points) - 1) :
        /\ graph' = ElevationGraph_load_points(graph,
                                               list_del(graph.points, i))
        /\ last' = Outcome("on_track_data_change", Len(graph.points) - 1,
                            "ok")
    /\ UNCHANGED <<others, smoothing>>

\* on_track_data_change after a delete_selected that removed nothing: the
\* same points are loaded again.
graph_reload ==
    /\ graph.distances # <<>>
    /\ graph' = ElevationGraph_load_points(graph, graph.points)
    /\ last' = Outcome("on_track_data_change", Len(graph.points), "empty")
    /\ UNCHANGED <<others, smoothing>>

StatsNext == graph_open \/ graph_delete \/ graph_reload

StatsSpec == Init /\ [][StatsNext]_vars

----------------------------------------------------------------------------
(* _smooth_elevations on its own, for every window size.                   *)

SmoothInit ==
    /\ Constructed
    /\ \E elevations \in ListsOf(Elevations), window_size \in 0..MaxPoints :
        smoothing = [elevations |-> elevations, window_size |-> window_size,
                     returned |-> None]

smooth_call ==
    /\ smoothing.returned = None
    /\ smoothing' = [smoothing EXCEPT !.returned =
           Some(_smooth_elevations(smoothing.elevations,
                                   smoothing.window_size))]
    /\ UNCHANGED <<others, graph, last>>

SmoothNext == smooth_call

SmoothSpec == SmoothInit /\ [][SmoothNext]_vars

----------------------------------------------------------------------------
(* Vocabulary of the properties *)

Deletions == {"delete_before_selected", "delete_after_selected",
              "_delete_point", "delete_selected"}

Mutations == Deletions \union {"undo_delete"}

\* This step is a call of op (every step but Return is a call, and records
\* itself in last).
Called(op) == last'.op = op /\ Len(frames') >= Len(frames)

\* The call recorded in last ran its body and changed the Track.
Did(op) == last.op = op /\ last.outcome = "ok"

Top(stack) == stack[Len(stack)]

Pop(stack) == SubSeq(stack, 1, Len(stack) - 1)

ValidIndex(i, pts) == 0 <= i /\ i < Len(pts)

\* The elements of a set of integers in ascending order.
Ascending(S) ==
    CHOOSE s \in [1..Cardinality(S) -> S] :
        \A a, b \in 1..Cardinality(S) : a < b => s[a] < s[b]

\* pts without the points at the (0-based) positions in S.
Without(pts, S) ==
    LET kept == Ascending({k \in 0..(Len(pts) - 1) : k \notin S})
    IN [j \in 1..Len(kept) |-> item(pts, kept[j])]

\* The points of pts at the (0-based) positions listed in indices.
PointsAt(pts, indices) == [j \in 1..Len(indices) |-> item(pts, indices[j])]

----------------------------------------------------------------------------
(* C1 - Undo exactness.  Stated inductively: every undo call made on a    *)
(* non-empty undo stack while no mutation is executing puts the Track back *)
(* to what it was just before the deletion being undone, and takes that    *)
(* deletion's record off the stack; n deletions followed by n undos then   *)
(* give back the Track as it was before the first deletion.                *)
UndoExactness ==
    [][(Called("undo_delete") /\ ~_is_processing /\ _undo_stack # <<>>)
         => (/\ points' = Top(hist)
             /\ _undo_stack' = Pop(_undo_stack))]_vars

(* C2 - Cursor consistency: idx is -1 or a valid index of the Track, in    *)
(* every state (hence after every operation and every rejected call).     *)
CursorConsistency == idx = -1 \/ ValidIndex(idx, points)

\* A deletion has removed a point before the highlighted last row: the
\* highlight no longer fits the Track and was reset.
CursorConsistencyWitness ==
    /\ Did("_delete_point")
    /\ points # <<>>
    /\ idx = -1
    /\ Top(_undo_stack).indices[1] < Len(points)

(* C3 - MultiSelect consistency: after a structural mutation every index   *)
(* in selected_indices is a valid index of the Track.                      *)
MultiSelectConsistency ==
    (last.op \in Mutations /\ last.outcome = "ok")
        => \A i \in selected_indices : ValidIndex(i, points)

(* C4 - Mutual exclusion: at most one structural mutation is executing at  *)
(* any time, and a mutation called while one is executing returns at its   *)
(* guard without changing anything.                                        *)
MutualExclusion ==
    /\ [](Len(frames) <= 1)
    /\ [][\A op \in Mutations :
            (Called(op) /\ frames # <<>>)
               => (/\ last'.outcome = "guard"
                   /\ UNCHANGED <<points, idx, selected_indices, _undo_stack,
                                  _is_processing, frames>>)]_vars

\* A deletion is executing and an undo called meanwhile has been turned
\* away although the undo stack has a record.
MutualExclusionWitness ==
    /\ frames = <<"delete_selected">>
    /\ last = Outcome("undo_delete", -1, "guard")
    /\ _undo_stack # <<>>

(* C5 - A rejected mutation changes nothing: _delete_point with an index   *)
(* outside the Track, delete_before_selected with idx <= 0,                *)
(* delete_after_selected with idx < 0 or idx >= len - 1, delete_selected   *)
(* with nothing selected, undo_delete with an empty undo stack (which      *)
(* returns False), and any mutation called while another is executing,     *)
(* leave points, idx, selected_indices and _undo_stack as they were.       *)
PreconditionFails(op) ==
    CASE op = "_delete_point" -> ~ValidIndex(last'.arg, points)
      [] op = "delete_before_selected" -> idx <= 0
      [] op = "delete_after_selected" -> idx < 0 \/ idx >= Len(points) - 1
      [] op = "delete_selected" -> selected_indices = {}
      [] op = "undo_delete" -> _undo_stack = <<>>

RejectedChangesNothing ==
    [][\A op \in Mutations :
          (Called(op) /\ (frames # <<>> \/ PreconditionFails(op)))
             => (/\ UNCHANGED <<points, idx, selected_indices, _undo_stack>>
                 /\ last'.outcome \in {"guard", "precondition"})]_vars

\* An undo on an empty stack was turned away with points loaded, a row
\* highlighted and a row checked.
RejectedChangesNothingWitness ==
    /\ last = Outcome("undo_delete", -1, "precondition")
    /\ _undo_stack = <<>>
    /\ idx >= 0
    /\ selected_indices # {}

(* C6 - delete_selected, called while no mutation is executing on a       *)
(* non-empty selection of valid indices, removes exactly the points at     *)
(* the selected positions of the Track as it was (the others keep their    *)
(* order), pushes one record whose indices are the selected indices in     *)
(* ascending order with the points that stood there, and clears the        *)
(* selection.                                                              *)
DeleteSelectedExact ==
    [][(/\ Called("delete_selected")
        /\ frames = <<>>
        /\ selected_indices # {}
        /\ \A i \in selected_indices : ValidIndex(i, points))
         => (/\ points' = Without(points, selected_indices)
             /\ Len(_undo_stack') = Len(_undo_stack) + 1
             /\ Pop(_undo_stack') = _undo_stack
             /\ Top(_undo_stack').shape = "lists"
             /\ Top(_undo_stack').indices = Ascending(selected_indices)
             /\ Top(_undo_stack').points =
                    PointsAt(points, Ascending(selected_indices))
             /\ selected_indices' = {})]_vars

\* Rows 0 and 2 of a three-point track were checked and deleted together.
DeleteSelectedExactWitness ==
    /\ Did("delete_selected")
    /\ _undo_stack # <<>>
    /\ Top(_undo_stack).indices = <<0, 2>>
    /\ Top(_undo_stack).points = <<1, 3>>
    /\ points = <<2>>
    /\ selected_indices = {}

(* C7 - Undo stack discipline: a delete call that removes points pushes    *)
(* exactly one record; an undo call that returns True takes exactly the    *)
(* most recently pushed record off; load_points empties the stack; no      *)
(* other step changes the stack.                                           *)
UndoStackDiscipline ==
    [][LET deleted == /\ \E op \in Deletions : Called(op)
                      /\ Len(points') < Len(points)
           undone == Called("undo_delete") /\ last'.outcome = "ok"
           loaded == Called("load_points")
       IN /\ deleted => (/\ Len(_undo_stack') = Len(_undo_stack) + 1
                         /\ Pop(_undo_stack') = _undo_stack)
          /\ undone => (/\ _undo_stack # <<>>
                        /\ _undo_stack' = Pop(_undo_stack))
          /\ loaded => _undo_stack' = <<>>
          /\ ~(deleted \/ undone \/ loaded) => UNCHANGED _undo_stack]_vars

(* C8 - Every record on the undo stack holds a sequence of indices and a   *)
(* sequence of points of equal length, the indices strictly ascending and  *)
(* valid in the Track as it was just before the deletion, and points[k]    *)
(* the point that stood at indices[k] in that Track.                       *)
RecordsWellFormed ==
    \A k \in 1..Len(_undo_stack) :
        LET r == _undo_stack[k]
            before == hist[k]
        IN /\ r.shape = "lists"
           /\ Len(r.indices) = Len(r.points)
           /\ \A a, b \in 1..Len(r.indices) :
                  a < b => r.indices[a] < r.indices[b]
           /\ \A j \in 1..Len(r.indices) :
                  /\ ValidIndex(r.indices[j], before)
                  /\ r.points[j] = item(before, r.indices[j])

(* C9 - _delete_point with a valid index i, called while no mutation is    *)
(* executing, removes exactly the point at position i and pushes one       *)
(* record holding i and the removed point; an undo_delete called right     *)
(* after it has returned succeeds, puts the Track back to what it was      *)
(* before the deletion, takes the record off the stack and sets idx to i.  *)
DeleteOneThenUndo ==
    [][/\ (/\ Called("_delete_point")
           /\ frames = <<>>
           /\ ValidIndex(last'.arg, points))
            => (/\ points' = Without(points, {last'.arg})
                /\ Len(_undo_stack') = Len(_undo_stack) + 1
                /\ Pop(_undo_stack') = _undo_stack
                /\ Top(_undo_stack').indices = <<last'.arg>>
                /\ Top(_undo_stack').points = <<item(points, last'.arg)>>)
       /\ (/\ Called("undo_delete")
           /\ frames = <<>>
           /\ Did("_delete_point"))
            => (/\ last'.outcome = "ok"
                /\ points' = Top(hist)
                /\ _undo_stack' = Pop(_undo_stack)
                /\ idx' = last.arg)]_vars

(* C10 - delete_before_selected with idx = c > 0 on a Track of n points,   *)
(* called while no mutation is executing, leaves the n - c points that     *)
(* stood at positions c..n-1 in order, pushes one record with the indices  *)
(* 0..c-1 ascending and the points that stood there, and sets idx to 0,    *)
(* which designates the point the cursor designated before.                *)
DeleteBeforeExact ==
    [][(/\ Called("delete_before_selected")
        /\ frames = <<>>
        /\ idx > 0)
         => LET c == idx
                n == Len(points)
            IN /\ points' = [k \in 1..(n - c) |-> points[k + c]]
               /\ Len(_undo_stack') = Len(_undo_stack) + 1
               /\ Pop(_undo_stack') = _undo_stack
               /\ Top(_undo_stack').shape = "lists"
               /\ Top(_undo_stack').indices = [k \in 1..c |-> k - 1]
               /\ Top(_undo_stack').points = [k \in 1..c |-> points[k]]
               /\ idx' = 0
               /\ item(points', idx') = item(points, c)]_vars

\* The first two of three points were deleted with the cursor on the third.
DeleteBeforeExactWitness ==
    /\ Did("delete_before_selected")
    /\ Len(_undo_stack) = 1
    /\ Top(_undo_stack).indices = <<0, 1>>
    /\ Top(_undo_stack).points = <<1, 2>>
    /\ points = <<3>>
    /\ idx = 0

(* C11 - delete_after_selected with 0 <= idx = c < n - 1 on a Track of n    *)
(* points, called while no mutation is executing, leaves the points that   *)
(* stood at positions 0..c in order, pushes one record with the indices    *)
(* c+1..n-1 ascending and the points that stood there, and leaves idx      *)
(* equal to c, which is then the last index of the Track.                  *)
DeleteAfterExact ==
    [][(/\ Called("delete_after_selected")
        /\ frames = <<>>
        /\ 0 <= idx
        /\ idx < Len(points) - 1)
         => LET c == idx
                n == Len(points)
            IN /\ points' = [k \in 1..(c + 1) |-> points[k]]
               /\ Len(_undo_stack') = Len(_undo_stack) + 1
               /\ Pop(_undo_stack') = _undo_stack
               /\ Top(_undo_stack').shape = "lists"
               /\ Top(_undo_stack').indices = [k \in 1..(n - c - 1) |-> c + k]
               /\ Top(_undo_stack').points =
                      [k \in 1..(n - c - 1) |-> points[c + 1 + k]]
               /\ idx' = c
               /\ idx' = Len(points') - 1]_vars

\* The last two of three points were deleted with the cursor on the first.
DeleteAfterExactWitness ==
    /\ Did("delete_after_selected")
    /\ Len(_undo_stack) = 1
    /\ Top(_undo_stack).indices = <<1, 2>>
    /\ Top(_undo_stack).points = <<2, 3>>
    /\ points = <<1>>
    /\ idx = 0

UndoCursorOnFirstRestored ==
    [][(Called("undo_delete") /\ last'.outcome = "ok")
         => (/\ idx' = Top(_undo_stack).indices[1]
             /\ ValidIndex(idx', points')
             /\ item(points', idx') = Top(_undo_stack).points[1])]_vars

(* C14 - After an undo_delete that returns True, selected_indices is       *)
(* empty, whichever rows were checked since the deletion and whichever     *)
(* deletion pushed the record.                                             *)
UndoClearsSelection ==
    Did("undo_delete") => selected_indices = {}

(* C15 - _delete_point with a valid index i, called while no mutation is   *)
(* executing and with idx > i, decrements idx by one, so that idx          *)
(* designates the same point as before the deletion.                       *)
DeleteOneCursorPast ==
    [][(/\ Called("_delete_point")
        /\ frames = <<>>
        /\ ValidIndex(last'.arg, points)
        /\ idx > last'.arg)
         => (/\ idx' = idx - 1
             /\ item(points', idx') = item(points, idx))]_vars

(* C16 - _delete_point with a valid index i, called while no mutation is   *)
(* executing and with idx = i: idx keeps its value and designates the      *)
(* point that followed when there is one, becomes the last index of the    *)
(* shortened Track when the removed point was the last one, and becomes -1 *)
(* when the Track is left empty.                                           *)
DeleteOneCursorOn ==
    [][(/\ Called("_delete_point")
        /\ frames = <<>>
        /\ ValidIndex(last'.arg, points)
        /\ idx = last'.arg)
         => IF points' = <<>> THEN idx' = -1
            ELSE IF idx < Len(points) - 1
            THEN /\ idx' = idx
                 /\ item(points', idx') = item(points, idx + 1)
            ELSE idx' = Len(points') - 1]_vars

----------------------------------------------------------------------------
(* Vocabulary of the notification properties *)

\* The positions of the trace at which the statistics are recomputed.
Recomputes(trace) ==
    {k \in DOMAIN trace :
        trace[k].to = "graph_view" /\ trace[k].what = "load_points"}

\* A renderer is refreshed with the Track: the rows of the list, the map.
IsRefresh(e) ==
    \/ e.to = "track_list" /\ e.what = "_refresh_list"
    \/ e.to = "map_view" /\ e.what = "refresh"

\* A renderer is handed the cursor index.
IsSelection(e) ==
    \/ e.to = "map_view" /\ e.what = "highlight"
    \/ e.to = "graph_view" /\ e.what \in {"highlight", "hide_point_info"}

\* The enablement of buttons is re-evaluated from the store.
IsFlags(e) ==
    /\ e.to = "buttons"
    /\ e.what \in {"update_range_delete_buttons_state",
                   "update_delete_selected_button_state",
                   "update_undo_button_state",
                   "update_all_button_states"}

\* The cumulative distances of a track, one entry per point.
CumulativeOf(pts) == [k \in 1..Len(pts) |-> compute_distances(pts)[k]]

(* C17 - For every mutation that succeeded, the calls to the collaborators *)
(* come in this order: the renderers (list rows, map) are refreshed, then  *)
(* the statistics are recomputed, and only then the cursor index is handed *)
(* to the map and the graph and the button states are re-evaluated; no     *)
(* renderer is handed the cursor index before the recompute.               *)
NotificationOrder ==
    (last.op \in Mutations /\ last.outcome = "ok")
        => /\ Recomputes(ui.trace) # {}
           /\ \A r \in Recomputes(ui.trace), k \in DOMAIN ui.trace :
                  /\ IsRefresh(ui.trace[k]) => k < r
                  /\ (IsSelection(ui.trace[k]) \/ IsFlags(ui.trace[k]))
                         => k > r

(* C18 - Whenever the map is told to highlight or to refresh, or the graph *)
(* is told to highlight, the distances the graph holds at that moment are  *)
(* those of the Track as it is at that moment: as many entries as the      *)
(* Track has points, entry i being the cumulative distance of the point at *)
(* index i.                                                                *)
RenderersSeeCurrentStats ==
    \A k \in DOMAIN ui.trace :
        LET e == ui.trace[k]
        IN (\/ e.to = "map_view" /\ e.what \in {"highlight", "refresh"}
            \/ e.to = "graph_view" /\ e.what = "highlight")
             => (/\ Len(e.distances) = Len(e.points)
                 /\ e.distances = CumulativeOf(e.points))

RejectedNotifiesNothing ==
    [][\A op \in Mutations :
          (Called(op) /\ (frames # <<>> \/ PreconditionFails(op)))
             => (/\ \A k \in DOMAIN ui'.trace : ui'.trace[k].to = "buttons"
                 /\ \A k \in DOMAIN ui'.trace :
                        ui'.trace[k].what # "update_delete_selected_button_state"
                 /\ ui'.distances = ui.distances
                 /\ ui'.current_highlight_idx = ui.current_highlight_idx)]_vars

\* An undo asked for while a deletion was executing was turned away: its
\* handler only disabled and re-evaluated the undo button.
RejectedNotifiesNothingWitness ==
    /\ last = Outcome("undo_delete", -1, "guard")
    /\ frames = <<"delete_before_selected">>
    /\ Len(ui.trace) = 2
    /\ ui.trace[2].what = "update_undo_button_state"
    /\ ui.distances = compute_distances(points)

----------------------------------------------------------------------------
\* What each button's disabled attribute is to be, from the TrackList.
CanUndo == _undo_stack # <<>>
CanDeleteBefore == idx > 0
CanDeleteAfter == 0 <= idx /\ idx < Len(points) - 1
CanDeleteSelected == selected_indices # {}
CanExport == points # <<>>

\* The four flags that no handler sets ahead of the operation.
OtherFlagsPublished ==
    /\ ui.delete_before_btn = ~CanDeleteBefore
    /\ ui.delete_after_btn = ~CanDeleteAfter
    /\ ui.delete_selected_btn = ~CanDeleteSelected
    /\ ui.export_btn = ~CanExport

\* C21: after every completed operation (no mutation in flight) the five
\* published enablement flags equal their predicates on the TrackList:
\* undo iff the stack is non-empty, delete-before iff idx > 0, delete-after
\* iff 0 <= idx < len(points) - 1, delete-selected iff rows are checked,
\* export iff there are points.
FlagsPublished ==
    frames = <<>> => (ui.undo_btn = ~CanUndo /\ OtherFlagsPublished)

\* C22: load is guarded like the mutations: a load_points call that arrives
\* while _is_processing is set changes none of points, idx, selected_indices
\* and _undo_stack, and a load_points call that is accepted sets
\* _is_processing for its duration.
LoadGuarded ==
    [][Called("load_points") =>
          IF _is_processing
          THEN UNCHANGED <<points, idx, selected_indices, _undo_stack>>
          ELSE _is_processing']_vars

----------------------------------------------------------------------------
(* Properties of the statistics *)

\* The graph has loaded a track.
Loaded == last.op \in {"open_gpx_result", "on_track_data_change"}

\* C23: the cumulative distances of the graph have exactly as many entries as
\* the track it loaded has points: none for an empty track, and a leading 0
\* when there is a point.
DistancesAlignedWithTrack ==
    Loaded =>
        /\ Len(graph.distances) = Len(graph.points)
        /\ graph.points # <<>> => graph.distances[1] = Zero

\* The point at index i of pts has valid coordinates.
ValidAt(pts, i) == isinstance(item(pts, i).lat)

\* The smoothed elevations of the track pts.
SmoothedOf(pts) ==
    _smooth_elevations([k \in 1..Len(pts) |-> raw_elevation(gpx_point(pts[k]))],
                       SMOOTHING_WINDOW_SIZE)

\* The smoothed elevation delta of the pair (i, i + 1) of pts.
DeltaAt(pts, i) == sub(item(SmoothedOf(pts), i + 1), item(SmoothedOf(pts), i))

\* The pairs (i, i + 1) of pts in which both points have valid coordinates.
ValidPairs(pts) ==
    {i \in 0..(Len(pts) - 2) : ValidAt(pts, i) /\ ValidAt(pts, i + 1)}

\* The sum of f over the finite set S
RECURSIVE SumOver(_, _)
SumOver(f, S) ==
    IF S = {} THEN Zero
    ELSE LET x == CHOOSE y \in S : TRUE
         IN add(f[x], SumOver(f, S \ {x}))

\* C24: the total ascent is the sum of the smoothed elevation deltas of the
\* pairs of valid points whose delta is strictly greater than the threshold;
\* a delta equal to the threshold, a smaller rise and a descent add nothing,
\* and the total is never negative.
AscentIsThresholdedSum ==
    Loaded =>
        LET pts == graph.points
            counted == {i \in ValidPairs(pts) :
                           gt(DeltaAt(pts, i), ASCENT_THRESHOLD_METERS)}
        IN /\ graph.total_ascent_m =
                  SumOver([i \in counted |-> DeltaAt(pts, i)], counted)
           /\ ~gt(Zero, graph.total_ascent_m)

\* A smoothed track with a counted rise, a rise of exactly the threshold
\* between valid points, and a pair with an invalid point.
AscentIsThresholdedSumWitness ==
    /\ Loaded
    /\ Len(graph.points) >= SMOOTHING_WINDOW_SIZE
    /\ gt(graph.total_ascent_m, Zero)
    /\ \E i \in ValidPairs(graph.points) :
           DeltaAt(graph.points, i) = ASCENT_THRESHOLD_METERS
    /\ \E i \in 0..(Len(graph.points) - 2) : i \notin ValidPairs(graph.points)

\* The 2D distance in metres between the points i and i + 1 of pts if both
\* have valid coordinates, 0 if not.
StepMetres(pts, i) ==
    IF i \in ValidPairs(pts)
    THEN abs(item(pts, i + 1).lat[1] - item(pts, i).lat[1])
    ELSE 0

\* C25: the cumulative distances start at 0 and never decrease: entry i + 1
\* is entry i plus the 2D distance (in km) between the points i and i + 1
\* when both are valid, plus nothing when one is not; the total distance is
\* the last entry; a track of one point has no distance, ascent or time.
CumulativeDistance ==
    Loaded =>
        LET pts == graph.points
            d == graph.distances
        IN /\ d[1] = Zero
           /\ \A i \in 0..(Len(pts) - 2) :
                  /\ item(d, i + 1) = add(item(d, i),
                                          Float(StepMetres(pts, i), 1000))
                  /\ ~gt(item(d, i), item(d, i + 1))
           /\ graph.total_distance_km = d[Len(d)]
           /\ Len(pts) = 1 =>
                  /\ graph.total_distance_km = Zero
                  /\ graph.total_ascent_m = Zero
                  /\ graph.total_seconds = 0

\* A track whose positions go back and forth, with an invalid point between
\* valid ones.
CumulativeDistanceWitness ==
    /\ Loaded
    /\ \E i, j, k \in ValidPairs(graph.points) :
           /\ item(graph.points, i + 1).lat[1] > item(graph.points, i).lat[1]
           /\ item(graph.points, j + 1).lat[1] < item(graph.points, j).lat[1]
           /\ k + 2 <= Len(graph.points) - 2
           /\ ~ValidAt(graph.points, k + 2)
    /\ gt(graph.total_distance_km, Zero)

----------------------------------------------------------------------------
(* Properties of _smooth_elevations *)

\* _smooth_elevations has returned.
Smoothed == smoothing.returned # None

\* C26: _smooth_elevations returns a list of the length of its input, and
\* returns the input itself when the input is shorter than the window or the
\* window is smaller than 3 (the empty input included).
SmoothKeepsLength ==
    Smoothed =>
        LET elevations == smoothing.elevations
            window_size == smoothing.window_size
            returned == smoothing.returned[1]
        IN /\ Len(returned) = Len(elevations)
           /\ (Len(elevations) < window_size \/ window_size < 3)
                  => returned = elevations

\* A call that smooths and changes a value.
SmoothKeepsLengthWitness ==
    /\ Smoothed
    /\ smoothing.window_size >= 3
    /\ Len(smoothing.elevations) > smoothing.window_size
    /\ smoothing.returned[1] # smoothing.elevations

\* The mean of a[lo .. hi], all of them entries of a
MeanOf(a, lo, hi) ==
    div(SumOver([j \in lo..hi |-> item(a, j)], lo..hi), hi - lo + 1)

\* C27: for an odd window w >= 3 and at least w elevations, the first w \div 2
\* and the last w \div 2 values returned are the original ones and every
\* other value i is the mean of the w inputs i - w \div 2 .. i + w \div 2: no
\* zero of the padding enters a returned value.
SmoothIsCenteredMean ==
    LET elevations == smoothing.elevations
        w == smoothing.window_size
        n == Len(elevations)
        h == w \div 2
    IN (Smoothed /\ w >= 3 /\ w % 2 = 1 /\ n >= w) =>
           \A i \in 0..(n - 1) :
               item(smoothing.returned[1], i) =
                   IF i < h \/ i >= n - h THEN item(elevations, i)
                   ELSE MeanOf(elevations, i - h, i + h)

\* A call with more elevations than the window, where the convolution of the
\* first entry, which takes in the padding, is not the original value.
SmoothIsCenteredMeanWitness ==
    /\ Smoothed
    /\ smoothing.window_size >= 3
    /\ smoothing.window_size % 2 = 1
    /\ Len(smoothing.elevations) >= smoothing.window_size + 2
    /\ smoothing.returned[1] # smoothing.elevations
    /\ convolve_same(smoothing.elevations, smoothing.window_size)[1]
           # smoothing.elevations[1]

----------------------------------------------------------------------------
(* Properties of the total time *)

HasTime(p) == isinstance(p.time)

\* last - first of the timestamps ts when there are two and it is positive
Elapsed(ts) ==
    IF Len(ts) >= 2 /\ ts[Len(ts)][1] > ts[1][1]
    THEN ts[Len(ts)][1] - ts[1][1] ELSE 0

\* C28: the total time is the last valid timestamp minus the first valid
\* timestamp, in the order of the points and over all points of the track,
\* and 0 when fewer than two points have a timestamp or the difference is
\* not positive.
TotalTimeOverAllPoints ==
    Loaded =>
        LET timed == SelectSeq(graph.points, HasTime)
        IN graph.total_seconds =
               Elapsed([k \in 1..Len(timed) |-> timed[k].time])

----------------------------------------------------------------------------
(* Properties of the deletions by range and by checkbox *)

\* points and _undo_stack after n calls of undo_delete, each on a record of
\* two lists: the zip loop re-inserts the record's points, the record is
\* popped.
RECURSIVE Undone(_, _, _)
Undone(pts, stack, n) ==
    IF n = 0 THEN [points |-> pts, stack |-> stack]
    ELSE Undone(restore(pts, Top(stack).indices, Top(stack).points),
                Pop(stack), n - 1)

\* C30: with only delete_before_selected, delete_after_selected and
\* delete_selected deleting (clicks, cursor moves and checkbox changes in
\* between), n undo_delete calls after n deletions give back the Track as
\* it was before the first of them, the same point at every index, and
\* leave of the undo stack what was there before those deletions.
RangeAndBatchUndo ==
    /\ Len(hist) = Len(_undo_stack)
    /\ \A n \in 1..Len(_undo_stack) :
           LET k == Len(_undo_stack) - n + 1
               after == Undone(points, _undo_stack, n)
           IN /\ after.points = hist[k]
              /\ after.stack = SubSeq(_undo_stack, 1, k - 1)

\* At least two deletions of a full track are on the stack, one of them a
\* delete_selected, and each of the last two removed something.
RangeAndBatchUndoWitness ==
    /\ Len(_undo_stack) >= 2
    /\ Did("delete_selected")
    /\ hist[1] # hist[2]
    /\ points # hist[2]
    /\ Len(hist[1]) = MaxLen

----------------------------------------------------------------------------
(* Properties of the Track and the undo stack taken together *)

\* The number of points held in the records of a stack
RECURSIVE Held(_)
Held(stack) ==
    IF stack = <<>> THEN 0 ELSE Len(Top(stack).points) + Held(Pop(stack))

\* C31: points are conserved since the last load: a load leaves its
\* sequence in the Track and no record on the stack, and no other step
\* changes the number of points in the Track plus the number of points
\* held in the records of the undo stack.
PointsConserved ==
    [][IF Called("load_points")
       THEN Len(points') + Held(_undo_stack') = last'.arg
       ELSE Len(points') + Held(_undo_stack')
                = Len(points) + Held(_undo_stack)]_vars

\* The points of a sequence
PointsOf(s) == {s[k] : k \in DOMAIN s}

\* C32: an undo_delete call that removes a record from the undo stack
\* re-inserts every point of that record into the Track, and a call that
\* does not restore the points (it returns False or raises) leaves the
\* undo stack as it was.
UndoPopsOnlyWhatItRestores ==
    [][Called("undo_delete") =>
          IF _undo_stack' # _undo_stack
          THEN /\ _undo_stack # <<>>
               /\ _undo_stack' = Pop(_undo_stack)
               /\ Len(points') = Len(points) + Len(Top(_undo_stack).points)
               /\ PointsOf(points')
                      = PointsOf(points) \union PointsOf(Top(_undo_stack).points)
          ELSE points' = points]_vars

\* C33: the Track is an order-preserving subsequence of the loaded
\* sequence.  The loaded sequence is 1, 2, .., n, so that means: the points
\* of the Track are strictly increasing (none twice, none before a point
\* that was loaded before it).
TrackIsSubsequenceOfLoaded ==
    \A i, j \in DOMAIN points : i < j => points[i] < points[j]

\* No insertion of the loop of undo_delete is clipped: every index is at
\* most the length of the list at the moment of its insertion.
RECURSIVE Unclamped(_, _, _)
Unclamped(pts, indices, data_list) ==
    \/ indices = <<>>
    \/ data_list = <<>>
    \/ /\ Head(indices) <= Len(pts)
       /\ Unclamped(list_insert(pts, Head(indices), Head(data_list)),
                    Tail(indices), Tail(data_list))

\* C34: when undo_delete re-inserts the points of the top record, every
\* recorded index is at most the length of the Track at the moment of its
\* insertion (the clamp of the insertion index never acts), and every point
\* is afterwards at its recorded index.
UndoNeverClamps ==
    [][(Called("undo_delete") /\ last'.outcome = "ok") =>
          LET top == Top(_undo_stack)
          IN /\ Unclamped(points, top.indices, top.points)
             /\ \A k \in DOMAIN top.indices :
                    /\ top.indices[k] < Len(points')
                    /\ item(points', top.indices[k]) = top.points[k]]_vars

----------------------------------------------------------------------------
(* Properties of the processing flag *)

\* C35: every call that takes the guard releases it.  While no mutation is
\* executing the flag is clear; a mutation called with the flag clear
\* either is executing afterwards, with the flag set, or has returned with
\* the flag clear (its precondition was false, it had nothing to delete, or
\* it raised); and the return of the executing mutation clears the flag.
GuardReleased ==
    /\ [](frames = <<>> => ~_is_processing)
    /\ [][\A op \in Mutations :
            (Called(op) /\ ~_is_processing)
               => IF frames' # frames
                  THEN _is_processing' /\ Top(frames') = op
                  ELSE ~_is_processing']_vars
    /\ [][Len(frames') < Len(frames) => ~_is_processing']_vars

\* An undo has raised on the record of a _delete_point, with points left
\* in the Track and another record on the stack: no mutation is executing
\* and the flag is clear.
GuardReleasedWitness ==
    /\ last = Outcome("undo_delete", -1, "raised")
    /\ frames = <<>>
    /\ ~_is_processing
    /\ points # <<>>
    /\ _undo_stack # <<>>

----------------------------------------------------------------------------
(* Properties of the cursor after a batch deletion *)

\* C36: a delete_selected whose body ran leaves idx at its previous value
\* when that value is a valid index of the shortened Track and sets it to
\* -1 otherwise (the Track may have become empty): the new idx depends on
\* the previous idx and the new length only.
DeleteSelectedCursor ==
    [][(Called("delete_selected") /\ last'.outcome \in {"ok", "empty"})
          => idx' = IF ValidIndex(idx, points') THEN idx ELSE -1]_vars

\* A delete_selected removed a row before the highlighted one: idx has the
\* value it had and is a valid index of the shortened Track, where it
\* designates another point than before.
DeleteSelectedCursorWitness ==
    /\ Did("delete_selected")
    /\ ValidIndex(idx, points)
    /\ ui.current_highlight_idx = idx
    /\ Top(_undo_stack).indices[1] < idx
    /\ item(Top(hist), idx) # item(points, idx)

----------------------------------------------------------------------------
(* Properties of the records *)

\* Every record on the undo stack holds at least one point.
RecordsNotEmpty ==
    \A k \in DOMAIN _undo_stack : Len(_undo_stack[k].points) >= 1

\* An undo_delete that returns True lengthens the Track.
UndoLengthens ==
    [][(Called("undo_delete") /\ last'.outcome = "ok")
          => Len(points') >= Len(points) + 1]_vars

\* C37: every record on the undo stack holds at least one point (no
\* deletion pushes an empty record), so every undo_delete that returns True
\* lengthens the Track by at least one point and leaves idx >= 0.
UndoLeavesCursor ==
    /\ []RecordsNotEmpty
    /\ UndoLengthens
    /\ [][(Called("undo_delete") /\ last'.outcome = "ok") => idx' >= 0]_vars

----------------------------------------------------------------------------
(* Properties of the map *)

\* C38: the map agrees with the TrackList in every state, hence after
\* every completed operation (load, click, cursor move, each deletion,
\* undo, and the calls that are turned away): its highlighted index is idx,
\* the points it holds are the Track, and the line it shows is drawn
\* through the points of the Track.
MapAgreesWithTrack ==
    /\ ui.current_highlight_idx = idx
    /\ MapView_points(ui, points) = points
    /\ ui.polyline = points

\* An undo has put points back between points that were left: the map
\* shows the restored Track and highlights the first restored row.
MapAgreesWithTrackWitness ==
    /\ Did("undo_delete")
    /\ frames = <<>>
    /\ Len(points) = MaxLen
    /\ ui.map_aliased
    /\ ui.polyline = points
    /\ idx > 0
    /\ ui.current_highlight_idx = idx

----------------------------------------------------------------------------
(* Properties of the ascent of a level track *)

\* Every point of pts with valid coordinates has the same elevation.
Level(pts) ==
    \A i, j \in 0..(Len(pts) - 1) :
        (ValidAt(pts, i) /\ ValidAt(pts, j))
            => raw_elevation(gpx_point(item(pts, i)))
                   = raw_elevation(gpx_point(item(pts, j)))

\* C39: a track in which every point with valid coordinates has the same
\* elevation has a total ascent of 0, wherever its points with invalid
\* coordinates are and however long it is.
LevelTrackHasNoAscent ==
    (Loaded /\ Level(graph.points)) => graph.total_ascent_m = Zero

====
